---- MODULE Spec2Model ----
(***************************************************************************)
(* Model of the per-guild playback queue of the Disco music bot:           *)
(* QueueHandler (src/src/commands/shuffle.ts, lines 24-183) and the        *)
(* `shuffle` command that drives it (same file, lines 4-22).               *)
(*                                                                         *)
(* JavaScript runs one turn of the event loop at a time: the code between  *)
(* two `await`s is one atomic step.  Every synchronous method of           *)
(* QueueHandler is therefore one action; addLinkToQueue, which awaits      *)
(* three times, is a process with one action per continuation.  The        *)
(* outcome of each awaited collaborator (metadata resolver, member lookup, *)
(* playback start) is chosen when its continuation runs.                   *)
(*                                                                         *)
(* queueUpdate listeners and the callers of getQueue are external.  Under  *)
(* Spec the listeners return normally and callers drop the arrays they get *)
(* from getQueue; SpecListener registers a listener that can throw,        *)
(* SpecHeld has a caller that keeps and writes to the array it got,        *)
(* SpecFifo records the order of the pushes, SpecShuffle applies the       *)
(* shuffle command alone to queues of every length.                        *)
(***************************************************************************)
EXTENDS Integers, Sequences, FiniteSets, TLC

\* ------------------------------------------------------------------ bounds
\* Number of addLinkToQueue invocations in a behaviour (bounds queue length).
MaxCalls == 3
\* Longest queue the shuffle command is applied to on its own (SpecShuffle).
MaxShuffle == 6

Guilds == {"g1", "g2"}
\* The queue never inspects a song or a requester: requests are told apart by
\* the object each invocation creates (QueuedSong.obj).
Links == {"linkA"}
Users == {"userX"}
NoGuild == "none"

Calls == 1..MaxCalls

VARIABLES
    queues,       \* QueueHandler.queues : Map<guild id, QueuedSong[]>
    calls,        \* the addLinkToQueue invocations, by allocation order
    playback,     \* per guild: how often the try of lines 72-77 was entered
    last,         \* the most recent step: operation, guild, invocation, emission
    removed,      \* the objects taken out of a queue by a removing method
    held,         \* the array a caller got from getQueue and keeps
    age,          \* when tracked: the objects in the order they were pushed
    listener      \* the queueUpdate listener registered with on(): "returns" or "mayThrow"

vars == <<queues, calls, playback, last, removed, held, age, listener>>

\* ------------------------------------------------------------------ values
Null == <<>>
Some(x) == <<x>>
\* A boolean return value (moveSong).
Bool(b) == [boolean |-> b]

\* Song produced by metaHandler.getSongMetadata for a link.
Song(link) == [url |-> link]

\* The object pushed at lines 61-67; `obj` is the identity of the object
\* literal (one fresh object per invocation).
QueuedSong(c, link, user) ==
    [song |-> Song(link), requestedBy |-> [id |-> user, username |-> user], obj |-> c]

MetadataError == "Could not fetch song metadata"
\* message.reply(content) of lines 9 and 15.
GuildOnlyReply == [content |-> "This command can only be used in a server!"]
\* What a queueUpdate listener throws, and the reply of line 18 with its message.
ListenerError == "listener failed"
ListenerErrorReply == [content |-> ListenerError]
ShuffledReply == [content |-> "Queue has been shuffled!"]

\* ------------------------------------------------------------------ Map
EmptyMap == [k \in {} |-> <<>>]
Has(m, k) == k \in DOMAIN m
MapSet(m, k, v) == [x \in (DOMAIN m) \cup {k} |-> IF x = k THEN v ELSE m[x]]
\* this.queues.get(id): Null for undefined, Some(array) otherwise.
MapGet(m, k) == IF Has(m, k) THEN Some(m[k]) ELSE Null

\* ------------------------------------------------------------------ arrays
\* Array.prototype.splice(i, 1) on a 0-based index: the array that remains.
SpliceOut(q, i) == SubSeq(q, 1, i) \o SubSeq(q, i + 2, Len(q))
\* Array.prototype.splice(i, 0, x) on a 0-based index.
SpliceIn(q, i, x) == SubSeq(q, 1, i) \o <<x>> \o SubSeq(q, i + 1, Len(q))
\* Element at 0-based index i.
At(q, i) == q[i + 1]

Swap(s, a, b) == [s EXCEPT ![a + 1] = s[b + 1], ![b + 1] = s[a + 1]]

\* Variant of Draws with every j drawn as floor(random * m).
Draws_fullRange(m) == [1..(m - 1) -> 0..(m - 1)]

\* The random draws of one shuffle of m elements: for each i in 1..m-1 a
\* value j = floor(random * (i + 1)) in 0..i.
Draws(m) == {js \in [1..(m - 1) -> 0..(m - 1)] : \A i \in 1..(m - 1) : js[i] <= i}

\* The loop of lines 130-133 from index i downward, with draws js.
RECURSIVE FisherYates(_, _, _)
FisherYates(s, i, js) ==
    IF i > 0 THEN FisherYates(Swap(s, i, js[i]), i - 1, js) ELSE s

\* ------------------------------------------------------------------ methods
\* Each synchronous method as a function of the Map: the Map after the call,
\* the value returned (Null for null and for void, Some(v) otherwise) and
\* whether queueUpdate was emitted.
Outcome(m, r, e) == [queues |-> m, ret |-> r, emit |-> e]

\* Variant of clearQueue that empties every guild's array.
clearQueue_all(m, g) == Outcome(MapSet([k \in DOMAIN m |-> <<>>], g, <<>>), Null, TRUE)

\* Variant of clearQueue without the emit of line 47.
clearQueue_silent(m, g) == Outcome(MapSet(m, g, <<>>), Null, FALSE)

\* Lines 45-48.
clearQueue(m, g) == Outcome(MapSet(m, g, <<>>), Null, TRUE)

getCurrentQueueItem(m, g) ==
    IF ~Has(m, g) \/ Len(m[g]) = 0
    THEN Outcome(m, Null, FALSE)
    ELSE Outcome(m, Some(At(m[g], 0)), FALSE)

\* Variant of getNextQueueItem that returns the element shift() removed.
getNextQueueItem_returnsRemoved(m, g) ==
    IF ~Has(m, g) \/ Len(m[g]) = 0
    THEN Outcome(m, Null, FALSE)
    ELSE Outcome(MapSet(m, g, Tail(m[g])), Some(At(m[g], 0)), TRUE)

getNextQueueItem(m, g) ==
    IF ~Has(m, g) \/ Len(m[g]) = 0
    THEN Outcome(m, Null, FALSE)
    ELSE LET q == Tail(m[g])
         IN  Outcome(MapSet(m, g, q), IF Len(q) > 0 THEN Some(At(q, 0)) ELSE Null, TRUE)

\* Variant of clearQueueExceptCurrent that returns early on a queue of length
\* 1 as well.
clearQueueExceptCurrent_quietOnOne(m, g) ==
    IF ~Has(m, g) \/ Len(m[g]) <= 1
    THEN Outcome(m, Null, FALSE)
    ELSE Outcome(MapSet(m, g, <<At(m[g], 0)>>), Null, TRUE)

\* Variant of clearQueueExceptCurrent that keeps the first two elements.
clearQueueExceptCurrent_keepsTwo(m, g) ==
    IF ~Has(m, g) \/ Len(m[g]) = 0
    THEN Outcome(m, Null, FALSE)
    ELSE Outcome(MapSet(m, g, SubSeq(m[g], 1, IF Len(m[g]) >= 2 THEN 2 ELSE 1)), Null, TRUE)

clearQueueExceptCurrent(m, g) ==
    IF ~Has(m, g) \/ Len(m[g]) = 0
    THEN Outcome(m, Null, FALSE)
    ELSE Outcome(MapSet(m, g, <<At(m[g], 0)>>), Null, TRUE)

\* Variant of shuffleQueue that stores the shuffled rest without the current
\* song.
shuffleQueue_dropsCurrent(m, g, js) ==
    IF ~Has(m, g) \/ Len(m[g]) <= 1
    THEN Outcome(m, Null, FALSE)
    ELSE LET remainingSongs == Tail(m[g])
             shuffled == FisherYates(remainingSongs, Len(remainingSongs) - 1, js)
         IN  Outcome(MapSet(m, g, shuffled), Null, TRUE)

\* Variant of shuffleQueue that rebuilds the queue with the current song
\* behind the shuffled rest.
shuffleQueue_currentLast(m, g, js) ==
    IF ~Has(m, g) \/ Len(m[g]) <= 1
    THEN Outcome(m, Null, FALSE)
    ELSE LET remainingSongs == Tail(m[g])
             shuffled == FisherYates(remainingSongs, Len(remainingSongs) - 1, js)
         IN  Outcome(MapSet(m, g, shuffled \o <<At(m[g], 0)>>), Null, TRUE)

shuffleQueue(m, g, js) ==
    IF ~Has(m, g) \/ Len(m[g]) <= 1
    THEN Outcome(m, Null, FALSE)
    ELSE LET currentSong == At(m[g], 0)
             remainingSongs == Tail(m[g])
             shuffled == FisherYates(remainingSongs, Len(remainingSongs) - 1, js)
         IN  Outcome(MapSet(m, g, <<currentSong>> \o shuffled), Null, TRUE)

\* Variant of moveSong that lowers toIndex by one when the removal of line
\* 153 shifted it.
moveSong_shifted(m, g, fromIndex, toIndex) ==
    IF ~Has(m, g) \/ Len(m[g]) = 0
    THEN Outcome(m, Some(Bool(FALSE)), FALSE)
    ELSE IF \/ fromIndex < 0 \/ fromIndex >= Len(m[g])
            \/ toIndex < 0 \/ toIndex >= Len(m[g])
            \/ fromIndex = toIndex
    THEN Outcome(m, Some(Bool(FALSE)), FALSE)
    ELSE LET song == At(m[g], fromIndex)
             at == IF fromIndex < toIndex THEN toIndex - 1 ELSE toIndex
             q == SpliceIn(SpliceOut(m[g], fromIndex), at, song)
         IN  Outcome(MapSet(m, g, q), Some(Bool(TRUE)), TRUE)

\* Variant of moveSong without the fromIndex === toIndex test of line 149.
moveSong_sameIndex(m, g, fromIndex, toIndex) ==
    IF ~Has(m, g) \/ Len(m[g]) = 0
    THEN Outcome(m, Some(Bool(FALSE)), FALSE)
    ELSE IF \/ fromIndex < 0 \/ fromIndex >= Len(m[g])
            \/ toIndex < 0 \/ toIndex >= Len(m[g])
    THEN Outcome(m, Some(Bool(FALSE)), FALSE)
    ELSE LET song == At(m[g], fromIndex)
             q == SpliceIn(SpliceOut(m[g], fromIndex), toIndex, song)
         IN  Outcome(MapSet(m, g, q), Some(Bool(TRUE)), TRUE)

moveSong(m, g, fromIndex, toIndex) ==
    IF ~Has(m, g) \/ Len(m[g]) = 0
    THEN Outcome(m, Some(Bool(FALSE)), FALSE)
    ELSE IF \/ fromIndex < 0 \/ fromIndex >= Len(m[g])
            \/ toIndex < 0 \/ toIndex >= Len(m[g])
            \/ fromIndex = toIndex
    THEN Outcome(m, Some(Bool(FALSE)), FALSE)
    ELSE LET song == At(m[g], fromIndex)
             q == SpliceIn(SpliceOut(m[g], fromIndex), toIndex, song)
         IN  Outcome(MapSet(m, g, q), Some(Bool(TRUE)), TRUE)

\* Variant of removeSong that takes the index as 1-based.
removeSong_oneBased(m, g, index) ==
    IF ~Has(m, g) \/ Len(m[g]) = 0
    THEN Outcome(m, Null, FALSE)
    ELSE IF index < 1 \/ index > Len(m[g])
    THEN Outcome(m, Null, FALSE)
    ELSE Outcome(MapSet(m, g, SpliceOut(m[g], index - 1)), Some(At(m[g], index - 1)), TRUE)

removeSong(m, g, index) ==
    IF ~Has(m, g) \/ Len(m[g]) = 0
    THEN Outcome(m, Null, FALSE)
    ELSE IF index < 0 \/ index >= Len(m[g])
    THEN Outcome(m, Null, FALSE)
    ELSE Outcome(MapSet(m, g, SpliceOut(m[g], index)), Some(At(m[g], index)), TRUE)

\* Line 178: `this.queues.get(guild.id) || []` evaluates to the Map's own array
\* when the key exists and to a new empty array otherwise.
getQueueIsOwnArray(m, g) == Has(m, g)

getQueue(m, g) == Outcome(m, Some(IF Has(m, g) THEN m[g] ELSE <<>>), FALSE)

\* ---------------------------------------------------------- addLinkToQueue
\* Variant of pushQueuedSong that stores a fresh one-element array instead of
\* pushing onto the guild's array.
pushQueuedSong_overwrite(m, g, item) == MapSet(m, g, <<item>>)

\* Variant of pushQueuedSong with unshift in place of push.
pushQueuedSong_unshift(m, g, item) ==
    LET m1 == IF ~Has(m, g) THEN MapSet(m, g, <<>>) ELSE m
    IN  MapSet(m1, g, <<item>> \o m1[g])

\* Lines 56-67: create the guild's array when the key is missing, then push.
pushQueuedSong(m, g, item) ==
    LET m1 == IF ~Has(m, g) THEN MapSet(m, g, <<>>) ELSE m
    IN  MapSet(m1, g, Append(m1[g], item))

\* Variant of onlySongInQueue that tests for a non-empty queue.
onlySongInQueue_nonEmpty(queue) == Len(queue) >= 1

\* Line 71, on the array after the push: `queue && queue.length <= 1`.
onlySongInQueue(queue) == Len(queue) <= 1

\* Variant of afterMetadata that creates the guild's array (lines 56-58)
\* before it tests the metadata.
afterMetadata_keyFirst(m, g, metadata, item) ==
    LET m1 == IF ~Has(m, g) THEN MapSet(m, g, <<>>) ELSE m
    IN  IF metadata = Null
        THEN [queues |-> m1, emit |-> FALSE, threw |-> TRUE]
        ELSE [queues |-> MapSet(m1, g, Append(m1[g], item)), emit |-> TRUE, threw |-> FALSE]

\* Lines 51-68 once getSongMetadata has settled with `metadata` (Null when
\* result.metadata is null): throw before any access to the Map, or push and
\* emit.
afterMetadata(m, g, metadata, item) ==
    IF metadata = Null
    THEN [queues |-> m, emit |-> FALSE, threw |-> TRUE]
    ELSE [queues |-> pushQueuedSong(m, g, item), emit |-> TRUE, threw |-> FALSE]

\* Line 53: the async function rejects.
throwMetadata(call) == [call EXCEPT !.pc = "thrown", !.error = MetadataError]

\* Line 68: what a listener throws leaves emit and the async function
\* rejects with it.
throwListener(call) == [call EXCEPT !.pc = "thrown", !.error = ListenerError]

\* Line 80: the async function fulfils with the metadata.
returnMetadata(call) ==
    [call EXCEPT !.pc = "returned", !.result = Some(Song(call.link))]

\* Variant of awaitMemberFetch that starts the lookup without awaiting it
\* and returns.
awaitMemberFetch_detached(call) == returnMetadata([call EXCEPT !.task = "lookup"])

\* Line 73: `await guild.members.fetch(...)` inside the try: the function is
\* suspended on the lookup.
awaitMemberFetch(call) == [call EXCEPT !.pc = "awaitFetch", !.task = "lookup"]

\* Line 74: `await playbackHandler.startPlayback(...)`.
awaitStartPlayback(call) == [call EXCEPT !.pc = "awaitStart", !.task = "starting"]

\* Variant of catchPlaybackError without the catch: the rejection leaves the
\* function.
catchPlaybackError_rethrow(call) ==
    [call EXCEPT !.pc = "thrown", !.error = "playback", !.task = "settled"]

\* Lines 75-80: the catch logs the error and the function goes on to return.
catchPlaybackError(call) == returnMetadata([call EXCEPT !.task = "settled"])

\* Lines 74-80: startPlayback fulfilled, the try ends, the function returns.
playbackStarted(call) == returnMetadata([call EXCEPT !.task = "settled"])

\* ------------------------------------------------------------------ state
IdleCall ==
    [pc |-> "idle", guild |-> NoGuild, link |-> "", user |-> "",
     pushed |-> FALSE, wasEmpty |-> FALSE, result |-> Null, error |-> "",
     task |-> "none"]

NoPlayback == [g \in Guilds |-> 0]

\* No array obtained from getQueue is being kept by a caller.
NoHeld == [kept |-> FALSE, guild |-> NoGuild, live |-> FALSE, items |-> <<>>]

\* The order of the pushes is not being recorded.
Untracked == [tracked |-> FALSE, order |-> <<>>, reordered |-> {}]

\* One step's record: the operation that ran, the guild it was given, its
\* index arguments, the addLinkToQueue invocation it belongs to (0 for the
\* synchronous methods), whether the awaited collaborator succeeded (TRUE for
\* the synchronous methods), the value returned to the caller by this step
\* (Null when none), whether the step emitted queueUpdate for the guild and
\* whether the step ended with an exception thrown out of that emit.
Step(op, g, args, c, ok, r, e) ==
    [op |-> op, guild |-> g, args |-> args, call |-> c, ok |-> ok, ret |-> r, emit |-> e,
     threw |-> FALSE]

\* EventEmitter.emit calls the listeners synchronously and lets what a
\* listener throws propagate: the method is left at its emit statement and
\* its return statement is not reached.
emitThrows(step) == [step EXCEPT !.ret = Null, !.threw = TRUE]

\* Whether the emit of a step throws: only when the step emits and a
\* listener that can throw is registered.
ThrowChoices(e) == IF e /\ listener = "mayThrow" THEN BOOLEAN ELSE {FALSE}

\* Index arguments a caller passes for the guild's queue: one below and one
\* above its valid indices, and every valid one.
IndexChoices(m, g) == -1..(IF Has(m, g) THEN Len(m[g]) ELSE 0)

\* The objects in an array.
Objects(q) == {q[i].obj : i \in 1..Len(q)}

\* The objects a removing method (clearQueue, getNextQueueItem,
\* clearQueueExceptCurrent, removeSong) took out of guild g's array, given the
\* Map m2 it leaves.
Taken(op, g, m2) ==
    IF op \in {"clearQueue", "getNextQueueItem", "clearQueueExceptCurrent", "removeSong"}
    THEN Objects(IF Has(queues, g) THEN queues[g] ELSE <<>>)
            \ Objects(IF Has(m2, g) THEN m2[g] ELSE <<>>)
    ELSE {}

\* Whether the method replaced the guild's array by a new one with
\* this.queues.set (lines 46, 115, 136) instead of changing the array in
\* place (push, shift, splice).
StoresNewArray(op, out) ==
    op \in {"clearQueue", "clearQueueExceptCurrent", "shuffle"} /\ out.emit

\* The array a caller keeps after a method ran on guild g and left the Map
\* m2: when it is the guild's own array, it shows every change made in place
\* and stops being the guild's array once a new one is stored.
heldAfter(g, m2, stored) ==
    IF held.kept /\ held.live /\ held.guild = g
    THEN IF stored THEN [held EXCEPT !.live = FALSE] ELSE [held EXCEPT !.items = m2[g]]
    ELSE held

\* The record of the pushes after a method ran on guild g: moveSong and
\* shuffleQueue, when they go through, reorder the guild's queue; a queue
\* left with at most one item is in the order of its pushes again.
agedBy(op, g, out) ==
    IF ~age.tracked THEN age
    ELSE IF op \in {"moveSong", "shuffle"} /\ out.emit
    THEN [age EXCEPT !.reordered = @ \cup {g}]
    ELSE IF Has(out.queues, g) /\ Len(out.queues[g]) <= 1
    THEN [age EXCEPT !.reordered = @ \ {g}]
    ELSE age

\* The record of the pushes after object x was pushed.
agedByPush(x) == IF age.tracked THEN [age EXCEPT !.order = Append(@, x)] ELSE age

Init ==
    /\ queues = EmptyMap
    /\ calls = [c \in Calls |-> IdleCall]
    /\ playback = NoPlayback
    /\ last = Step("new", NoGuild, <<>>, 0, TRUE, Null, FALSE)
    /\ removed = {}
    /\ held = NoHeld
    /\ age = Untracked
    /\ listener = "returns"

\* A synchronous method: apply its outcome and record the step.
Sync(op, g, args, out) ==
    /\ queues' = out.queues
    /\ \E t \in ThrowChoices(out.emit) :
        last' = IF t THEN emitThrows(Step(op, g, args, 0, TRUE, out.ret, out.emit))
                ELSE Step(op, g, args, 0, TRUE, out.ret, out.emit)
    /\ removed' = removed \cup Taken(op, g, out.queues)
    /\ held' = heldAfter(g, out.queues, StoresNewArray(op, out))
    /\ age' = agedBy(op, g, out)
    /\ UNCHANGED <<calls, playback, listener>>

ClearQueue(g) == Sync("clearQueue", g, <<>>, clearQueue(queues, g))
GetCurrentQueueItem(g) == Sync("getCurrentQueueItem", g, <<>>, getCurrentQueueItem(queues, g))
GetNextQueueItem(g) == Sync("getNextQueueItem", g, <<>>, getNextQueueItem(queues, g))
ClearQueueExceptCurrent(g) ==
    Sync("clearQueueExceptCurrent", g, <<>>, clearQueueExceptCurrent(queues, g))
MoveSong(g, a, b) == Sync("moveSong", g, <<a, b>>, moveSong(queues, g, a, b))
RemoveSong(g, i) == Sync("removeSong", g, <<i>>, removeSong(queues, g, i))
\* getQueue called by a caller that reads the array and drops it.
GetQueue(g) == Sync("getQueue", g, <<>>, getQueue(queues, g))

\* The shuffle command's execute (lines 7-21).  When shuffleQueue throws (out
\* of its emit), the catch of lines 16-20 replies with the error's message.
ShuffleCommand(mg) ==
    IF mg \notin Guilds
    THEN /\ last' = Step("shuffle", mg, <<>>, 0, TRUE, Some(GuildOnlyReply), FALSE)
         /\ UNCHANGED <<queues, calls, playback, removed, held, age, listener>>
    ELSE \E js \in Draws(IF Has(queues, mg) /\ Len(queues[mg]) > 1
                         THEN Len(queues[mg]) - 1 ELSE 1) :
            LET out == shuffleQueue(queues, mg, js)
            IN  /\ queues' = out.queues
                /\ \E t \in ThrowChoices(out.emit) :
                    last' = IF t
                            THEN [Step("shuffle", mg, <<>>, 0, TRUE, Some(ListenerErrorReply), out.emit)
                                    EXCEPT !.threw = TRUE]
                            ELSE Step("shuffle", mg, <<>>, 0, TRUE, Some(ShuffledReply), out.emit)
                /\ held' = heldAfter(mg, out.queues, StoresNewArray("shuffle", out))
                /\ age' = agedBy("shuffle", mg, out)
                /\ UNCHANGED <<calls, playback, removed, listener>>

\* The next invocation: invocations are numbered in the order they are made.
NextCall == CHOOSE c \in Calls : calls[c].pc = "idle" /\ \A d \in Calls : d < c => calls[d].pc # "idle"

\* addLinkToQueue is called: it runs up to the await of line 51.
AddLinkToQueue(g, link, user) ==
    /\ \E c \in Calls : calls[c].pc = "idle"
    /\ calls' = [calls EXCEPT ![NextCall] =
                    [@ EXCEPT !.pc = "awaitMeta", !.guild = g, !.link = link, !.user = user]]
    /\ last' = Step("addLinkToQueue.call", g, <<>>, NextCall, TRUE, Null, FALSE)
    /\ UNCHANGED <<queues, playback, removed, held, age, listener>>

\* getSongMetadata settles and the function resumes: lines 52-80 up to the
\* next await or the return.  The resolver reports a link it cannot resolve
\* as a result without metadata.  When the emit of line 68 throws, the
\* function rejects there, after the push and before the test of line 71.
ResolveMetadata(c) ==
    /\ calls[c].pc = "awaitMeta"
    /\ \E metadata \in {Null, Some(Song(calls[c].link))} :
        LET call == calls[c]
            g == call.guild
            out == afterMetadata(queues, g, metadata, QueuedSong(c, call.link, call.user))
            pushed == [call EXCEPT !.pushed = TRUE,
                                   !.wasEmpty = ~Has(queues, g) \/ Len(queues[g]) = 0]
        IN  /\ queues' = out.queues
            /\ \E t \in ThrowChoices(out.emit) :
                /\ IF out.threw
                   THEN /\ calls' = [calls EXCEPT ![c] = throwMetadata(call)]
                        /\ UNCHANGED playback
                   ELSE IF t
                   THEN /\ calls' = [calls EXCEPT ![c] = throwListener(pushed)]
                        /\ UNCHANGED playback
                   ELSE IF onlySongInQueue(out.queues[g])
                   THEN /\ calls' = [calls EXCEPT ![c] = awaitMemberFetch(pushed)]
                        /\ playback' = [playback EXCEPT ![g] = @ + 1]
                   ELSE /\ calls' = [calls EXCEPT ![c] = returnMetadata(pushed)]
                        /\ UNCHANGED playback
                /\ last' = [Step("addLinkToQueue.metadata", g, <<>>, c, metadata # Null,
                                 calls'[c].result, out.emit) EXCEPT !.threw = t]
            /\ held' = heldAfter(g, out.queues, FALSE)
            /\ age' = IF out.threw THEN age ELSE agedByPush(c)
            /\ UNCHANGED <<removed, listener>>

\* guild.members.fetch settles and the function resumes: line 74 or the catch.
FetchMember(c) ==
    /\ calls[c].pc = "awaitFetch"
    /\ \E found \in BOOLEAN :
        /\ IF found
           THEN calls' = [calls EXCEPT ![c] = awaitStartPlayback(calls[c])]
           ELSE calls' = [calls EXCEPT ![c] = catchPlaybackError(calls[c])]
        /\ last' = Step("addLinkToQueue.member", calls[c].guild, <<>>, c, found,
                        calls'[c].result, FALSE)
    /\ UNCHANGED <<queues, playback, removed, held, age, listener>>

\* startPlayback settles and the function resumes: the return of line 80,
\* through the catch when it rejected.
StartPlayback(c) ==
    /\ calls[c].pc = "awaitStart"
    /\ \E ok \in BOOLEAN :
        /\ calls' = [calls EXCEPT ![c] =
                        IF ok THEN playbackStarted(calls[c]) ELSE catchPlaybackError(calls[c])]
        /\ last' = Step("addLinkToQueue.playback", calls[c].guild, <<>>, c, ok,
                        calls'[c].result, FALSE)
    /\ UNCHANGED <<queues, playback, removed, held, age, listener>>

Next ==
    \/ \E g \in Guilds, link \in Links, user \in Users : AddLinkToQueue(g, link, user)
    \/ \E c \in Calls : ResolveMetadata(c)
    \/ \E c \in Calls : FetchMember(c)
    \/ \E c \in Calls : StartPlayback(c)
    \/ \E g \in Guilds : ClearQueue(g)
    \/ \E g \in Guilds : GetCurrentQueueItem(g)
    \/ \E g \in Guilds : GetNextQueueItem(g)
    \/ \E g \in Guilds : ClearQueueExceptCurrent(g)
    \/ \E g \in Guilds : \E a, b \in IndexChoices(queues, g) : MoveSong(g, a, b)
    \/ \E g \in Guilds : \E i \in IndexChoices(queues, g) : RemoveSong(g, i)
    \/ \E g \in Guilds : GetQueue(g)
    \/ \E mg \in Guilds \cup {NoGuild} : ShuffleCommand(mg)

\* The queueUpdate listeners return normally, callers drop the arrays they
\* get from getQueue.
Spec == Init /\ [][Next]_vars

\* Only addLinkToQueue runs: concurrent invocations and nothing else.
NextEnqueue ==
    \/ \E g \in Guilds, link \in Links, user \in Users : AddLinkToQueue(g, link, user)
    \/ \E c \in Calls : ResolveMetadata(c)
    \/ \E c \in Calls : FetchMember(c)
    \/ \E c \in Calls : StartPlayback(c)

SpecEnqueue == Init /\ [][NextEnqueue]_vars

\* Every operation, all for the one guild "g1" (and the shuffle command
\* outside a guild).
NextOne ==
    \/ \E link \in Links, user \in Users : AddLinkToQueue("g1", link, user)
    \/ \E c \in Calls : ResolveMetadata(c)
    \/ \E c \in Calls : FetchMember(c)
    \/ \E c \in Calls : StartPlayback(c)
    \/ ClearQueue("g1")
    \/ GetCurrentQueueItem("g1")
    \/ GetNextQueueItem("g1")
    \/ ClearQueueExceptCurrent("g1")
    \/ \E a, b \in IndexChoices(queues, "g1") : MoveSong("g1", a, b)
    \/ \E i \in IndexChoices(queues, "g1") : RemoveSong("g1", i)
    \/ GetQueue("g1")
    \/ \E mg \in {"g1", NoGuild} : ShuffleCommand(mg)

\* ------------------------------------------------------------------ claims
\* The guild's queue as a caller sees it: an absent key is an empty queue.
Contents(m, g) == IF Has(m, g) THEN m[g] ELSE <<>>

\* The QueuedSong invocation c pushes.
ItemOf(c) == QueuedSong(c, calls[c].link, calls[c].user)

Count(q, x) == Cardinality({i \in 1..Len(q) : q[i] = x})

\* p and q hold the same elements the same number of times.
SameBag(p, q) ==
    /\ Len(p) = Len(q)
    /\ \A i \in 1..Len(p) : Count(p, p[i]) = Count(q, p[i])

Pending(c) == calls[c].task \in {"lookup", "starting"}

\* The invocations made so far for guild g.
CallsOf(g) == {c \in Calls : calls[c].pc # "idle" /\ calls[c].guild = g}

\* C1 (under SpecEnqueue: concurrent addLinkToQueue invocations and no other
\* operation).  Once every invocation made for a guild has returned, the
\* guild's queue holds the item of each of them exactly once and nothing
\* else, in whatever order the resolutions completed.
C1_AllEnqueuedOnce ==
    \A g \in Guilds :
        (\A c \in CallsOf(g) : calls[c].pc = "returned") =>
            /\ Len(Contents(queues, g)) = Cardinality(CallsOf(g))
            /\ \A c \in CallsOf(g) : Count(Contents(queues, g), ItemOf(c)) = 1

\* C1 witness: MaxCalls invocations for one guild were all in flight, resolved
\* in an order other than the order of the calls, and have all returned.
C1_Witness ==
    \E g \in Guilds :
        /\ CallsOf(g) = Calls
        /\ \A c \in Calls : calls[c].pc = "returned"
        /\ Len(queues[g]) = MaxCalls
        /\ queues[g][1].obj = MaxCalls

\* C2.  An invocation enters the playback-start try of lines 72-77 exactly
\* when its push found the queue empty, and not at all when the queue was
\* non-empty or before it has pushed; the number of entries for a guild is the
\* number of such invocations, so each enters once and no other operation
\* enters it.
C2_PlaybackOnlyOnFirst ==
    /\ \A c \in Calls :
        IF calls[c].pushed
        THEN (calls[c].task # "none") <=> calls[c].wasEmpty
        ELSE calls[c].task = "none"
    /\ \A g \in Guilds :
        playback[g] = Cardinality({c \in CallsOf(g) : calls[c].pushed /\ calls[c].wasEmpty})

\* C2 witness: for one guild, an invocation that pushed onto the empty queue
\* and attempted playback-start, one that pushed onto a non-empty queue and
\* returned without attempting it, and, after the queue was emptied again, a
\* second attempt.
C2_Witness ==
    \E g \in Guilds : \E c, d, e \in CallsOf(g) :
        /\ calls[c].pushed /\ calls[c].wasEmpty /\ calls[c].task = "settled"
        /\ calls[d].pushed /\ ~calls[d].wasEmpty /\ calls[d].pc = "returned"
        /\ calls[d].task = "none"
        /\ e # c /\ calls[e].pushed /\ calls[e].wasEmpty
        /\ playback[g] = 2

\* The step just taken is invocation c resuming from the await `op` names.
Resumed(c, op) == calls[c].pc # calls'[c].pc /\ last'.op = op /\ last'.call = c

\* C3.  When getSongMetadata yields no metadata the invocation rejects with
\* the metadata error and the step changes nothing else: the Map (keys
\* included) is as before, no queueUpdate is emitted and the playback try is
\* not entered.
C3_MetadataFailureNoEffect ==
    [][\A c \in Calls :
        (Resumed(c, "addLinkToQueue.metadata") /\ ~last'.ok) =>
            /\ calls'[c].pc = "thrown"
            /\ calls'[c].error = MetadataError
            /\ calls'[c].result = Null
            /\ calls'[c].task = "none" /\ ~calls'[c].pushed
            /\ queues' = queues
            /\ ~last'.emit
            /\ playback' = playback]_vars

\* C3 witness: an invocation has just rejected for a guild whose key is still
\* absent from the Map.
C3_Witness ==
    /\ last.op = "addLinkToQueue.metadata" /\ ~last.ok
    /\ calls[last.call].pc = "thrown"
    /\ ~Has(queues, last.guild)

\* C4.  When the member lookup or startPlayback fails, the invocation returns
\* its normal result (the resolved metadata, no error) and that step leaves
\* the Map as it was.
C4_PlaybackFailureIgnored ==
    [][\A c \in Calls :
        ((Resumed(c, "addLinkToQueue.member") \/ Resumed(c, "addLinkToQueue.playback"))
            /\ ~last'.ok) =>
            /\ calls'[c].pc = "returned"
            /\ calls'[c].result = Some(Song(calls[c].link))
            /\ last'.ret = calls'[c].result
            /\ calls'[c].error = ""
            /\ queues' = queues]_vars

\* C4 witness: the member lookup has just failed, the invocation has returned
\* and the item it pushed is still the guild's only queued item.
C4_Witness ==
    /\ last.op = "addLinkToQueue.member" /\ ~last.ok
    /\ calls[last.call].pc = "returned"
    /\ Contents(queues, last.guild) = <<ItemOf(last.call)>>

\* C4 witness, second case: startPlayback itself has just failed.
C4_WitnessStart ==
    /\ last.op = "addLinkToQueue.playback" /\ ~last.ok
    /\ calls[last.call].pc = "returned"

\* C5 as stated: playback-start is dispatched without blocking the return.
\* An async function that does not await the lookup runs on to its return in
\* the same turn, so whenever the lookup or playback-start of an invocation
\* is pending, that invocation has returned.
C5_ReturnDoesNotWait == \A c \in Calls : Pending(c) => calls[c].pc = "returned"

\* C5 amended.  The return waits: while the lookup or playback-start of an
\* invocation is pending the invocation is suspended on it, and an invocation
\* that has returned has no lookup or playback-start pending.
C5_ReturnWaitsForPlayback ==
    \A c \in Calls :
        /\ calls[c].task = "lookup" => calls[c].pc = "awaitFetch"
        /\ calls[c].task = "starting" => calls[c].pc = "awaitStart"
        /\ calls[c].pc = "returned" => ~Pending(c)

\* C5 witness: an invocation that triggered playback-start has returned, after
\* startPlayback settled.
C5_Witness ==
    /\ last.op = "addLinkToQueue.playback"
    /\ calls[last.call].pc = "returned"
    /\ calls[last.call].wasEmpty /\ calls[last.call].task = "settled"

\* The step just taken is the synchronous method `op`.
Ran(op) == last'.op = op /\ last'.call = 0

\* C6.  A shuffle of a queue of length <= 1, or of an absent guild, changes
\* nothing; a shuffle of a longer queue, whatever the draws, keeps the item
\* at position 0, keeps the length and keeps the multiset of the items at
\* positions 1..end.
C6_ShufflePinsCurrent ==
    [][(Ran("shuffle") /\ last'.guild \in Guilds) =>
        LET g == last'.guild
            pre == Contents(queues, g)
            post == Contents(queues', g)
        IN  /\ Len(pre) <= 1 => (queues' = queues /\ ~last'.emit)
            /\ Len(pre) >= 2 =>
                /\ post[1] = pre[1]
                /\ Len(post) = Len(pre)
                /\ SameBag(Tail(pre), Tail(post))]_vars

\* C6 witness: a shuffle has just run on a queue of three items and left the
\* two behind position 0 in the reverse of their insertion order.
C6_Witness ==
    /\ last.op = "shuffle" /\ last.emit
    /\ Len(queues[last.guild]) = 3
    /\ queues[last.guild][1].obj = 1
    /\ queues[last.guild][2].obj = 3
    /\ queues[last.guild][3].obj = 2

\* C7.  getNextQueueItem on a queue of length 1 leaves it empty and returns
\* null; on a queue of length n >= 2 it leaves the former positions 1..n-1 in
\* order and returns the item now at position 0; on an empty or absent queue
\* it returns null, changes nothing and emits nothing.
C7_Advance ==
    [][Ran("getNextQueueItem") =>
        LET g == last'.guild
            pre == Contents(queues, g)
            post == Contents(queues', g)
        IN  /\ Len(pre) = 0 => (last'.ret = Null /\ queues' = queues /\ ~last'.emit)
            /\ Len(pre) = 1 => (last'.ret = Null /\ post = <<>>)
            /\ Len(pre) >= 2 =>
                /\ post = SubSeq(pre, 2, Len(pre))
                /\ last'.ret = Some(post[1])
                /\ last'.ret = Some(pre[2])]_vars

\* C7 witness: an advance has just removed the first of three items and
\* returned the second.
C7_Witness ==
    /\ last.op = "getNextQueueItem" /\ last.emit
    /\ Len(queues[last.guild]) = 2
    /\ last.ret = Some(queues[last.guild][1])

\* The arguments of a move that must be refused on queue q.
MoveRefused(q, i, j) ==
    \/ Len(q) = 0
    \/ i = j
    \/ i < 0 \/ i >= Len(q)
    \/ j < 0 \/ j >= Len(q)

\* C8.  moveSong with equal indices, with an index outside [0, length), or on
\* an empty or absent queue returns false, leaves the Map as it was (keys
\* included) and emits nothing.
C8_MoveRefused ==
    [][Ran("moveSong") =>
        LET pre == Contents(queues, last'.guild)
        IN  MoveRefused(pre, last'.args[1], last'.args[2]) =>
                (last'.ret = Some(Bool(FALSE)) /\ queues' = queues /\ ~last'.emit)]_vars

\* C8 witness: a move with equal, valid indices has just been refused on a
\* queue of three items.
C8_Witness ==
    /\ last.op = "moveSong" /\ last.ret = Some(Bool(FALSE))
    /\ Len(Contents(queues, last.guild)) = 3
    /\ last.args = <<1, 1>>

\* C8 witness, second case: an index one past the end.
C8_WitnessRange ==
    /\ last.op = "moveSong" /\ last.ret = Some(Bool(FALSE))
    /\ Len(Contents(queues, last.guild)) = 2
    /\ last.args = <<0, 2>>

\* C9.  removeSong with an index in [0, length) returns the item that was at
\* the index, shortens the queue by one and keeps the other items in order,
\* so that the queue getQueue then returns does not hold the removed item;
\* with any other index, or on an empty or absent queue, it returns null and
\* changes nothing.
C9_RemoveAt ==
    [][Ran("removeSong") =>
        LET g == last'.guild
            i == last'.args[1]
            pre == Contents(queues, g)
            post == Contents(queues', g)
            listed == getQueue(queues', g).ret[1]
        IN  IF 0 <= i /\ i < Len(pre)
            THEN /\ last'.ret = Some(pre[i + 1])
                 /\ Len(post) = Len(pre) - 1
                 /\ \A k \in 1..Len(post) : post[k] = IF k <= i THEN pre[k] ELSE pre[k + 1]
                 /\ \A k \in 1..Len(listed) : listed[k] # pre[i + 1]
            ELSE /\ last'.ret = Null
                 /\ queues' = queues
                 /\ ~last'.emit]_vars

\* C9 witness: the middle one of three items has just been removed and
\* returned.
C9_Witness ==
    /\ last.op = "removeSong" /\ last.args = <<1>>
    /\ last.ret # Null /\ last.ret[1].obj = 2
    /\ Len(queues[last.guild]) = 2
    /\ queues[last.guild][1].obj = 1
    /\ queues[last.guild][2].obj = 3

\* C10.  clearQueueExceptCurrent on a non-empty queue leaves exactly the item
\* that was at position 0; on an empty or absent queue it changes nothing;
\* and applied again to the result it changes nothing.
C10_ClearExceptCurrent ==
    [][Ran("clearQueueExceptCurrent") =>
        LET g == last'.guild
            pre == Contents(queues, g)
            post == Contents(queues', g)
        IN  /\ Len(pre) >= 1 => post = <<pre[1]>>
            /\ Len(pre) = 0 => (post = <<>> /\ queues' = queues)
            /\ clearQueueExceptCurrent(queues', g).queues = queues']_vars

\* C10 witness: after three items were pushed for a guild,
\* clearQueueExceptCurrent has just left the first of them alone in the queue.
C10_Witness ==
    /\ last.op = "clearQueueExceptCurrent" /\ last.emit
    /\ \A c \in Calls : calls[c].pushed /\ calls[c].guild = last.guild
    /\ Contents(queues, last.guild) = <<ItemOf(1)>>

\* C14.  Whenever a step changes a guild's entry in the Map (its array's
\* contents or order, or the key being created), that same step emits
\* queueUpdate for that guild, after the change and before the method goes on
\* to return: no queue changes without a queueUpdate for its guild.
C14_ChangeEmits ==
    [][\A g \in Guilds :
          MapGet(queues', g) # MapGet(queues, g) => (last'.emit /\ last'.guild = g)]_vars

\* C14 witness: removeSong has just taken an item out of a guild's queue and
\* emitted queueUpdate.
C14_Witness ==
    /\ last.op = "removeSong" /\ last.ret # Null /\ last.emit
    /\ Len(Contents(queues, last.guild)) = 1

\* C15.  A step taken for one guild, a continuation of a suspended
\* addLinkToQueue included, leaves every other guild's entry in the Map as it
\* was, enters the playback-start try for no other guild, touches no
\* invocation of another guild, and its queueUpdate, if any, carries the
\* guild the step was given.
C15_OtherGuildsUntouched ==
    [][\A h \in Guilds \ {last'.guild} :
          /\ MapGet(queues', h) = MapGet(queues, h)
          /\ playback'[h] = playback[h]
          /\ \A c \in Calls : calls[c].guild = h => calls'[c] = calls[c]]_vars

\* C15 witness: an addLinkToQueue for one guild has just pushed and entered
\* the playback-start try while the other guild's queue holds an item and an
\* invocation for the other guild is suspended.
C15_Witness ==
    \E h \in Guilds :
        /\ last.op = "addLinkToQueue.metadata" /\ last.emit /\ last.guild # h
        /\ playback[last.guild] = 1
        /\ Len(Contents(queues, h)) = 1
        /\ \E c \in Calls : calls[c].guild = h /\ calls[c].pc = "awaitFetch"

\* C16.  moveSong with both indices inside the queue and different from each
\* other, index 0 included, returns true; the queue keeps its length, the
\* item that was at fromIndex is at toIndex, and the other items keep their
\* order relative to each other.
C16_MoveValid ==
    [][Ran("moveSong") =>
        LET g == last'.guild
            fromIndex == last'.args[1]
            toIndex == last'.args[2]
            pre == Contents(queues, g)
            post == Contents(queues', g)
        IN  ~MoveRefused(pre, fromIndex, toIndex) =>
                /\ last'.ret = Some(Bool(TRUE))
                /\ Len(post) = Len(pre)
                /\ At(post, toIndex) = At(pre, fromIndex)
                /\ SpliceOut(post, toIndex) = SpliceOut(pre, fromIndex)]_vars

\* C16 witness: a move from index 0 to the last index of a three-item queue
\* has just succeeded.
C16_Witness ==
    /\ last.op = "moveSong" /\ last.args = <<0, 2>> /\ last.ret = Some(Bool(TRUE))
    /\ Len(Contents(queues, last.guild)) = 3
    /\ queues[last.guild][3].obj = 1

\* C16 witness: a move to index 0 has just succeeded.
C16_WitnessToFront ==
    /\ last.op = "moveSong" /\ last.args = <<2, 0>> /\ last.ret = Some(Bool(TRUE))
    /\ Len(Contents(queues, last.guild)) = 3

\* C17 as claimed.  clearQueueExceptCurrent emits queueUpdate only when it
\* removed at least one element: on a queue of length 0 or 1, or on an absent
\* queue, it emits nothing.
C17_EmitsOnlyOnRemoval ==
    [][Ran("clearQueueExceptCurrent") =>
        (last'.emit => Len(Contents(queues', last'.guild)) < Len(Contents(queues, last'.guild)))]_vars

\* C17.  clearQueueExceptCurrent emits queueUpdate exactly when the queue is
\* non-empty: on an empty or absent queue it emits nothing, on a queue of
\* length 1 it removes nothing and still emits, on a longer queue it removes
\* the rest and emits.
C17_EmitsWhenNonEmpty ==
    [][Ran("clearQueueExceptCurrent") =>
        LET pre == Contents(queues, last'.guild)
            post == Contents(queues', last'.guild)
        IN  /\ last'.emit <=> Len(pre) >= 1
            /\ Len(pre) = 1 => (post = pre /\ last'.emit)
            /\ Len(pre) = 0 => (queues' = queues /\ ~last'.emit)]_vars

\* C17 witness: clearQueueExceptCurrent has just run on a queue of length 1
\* and emitted (the one invocation made so far pushed the one item there is).
C17_Witness ==
    /\ last.op = "clearQueueExceptCurrent" /\ last.emit
    /\ Len(Contents(queues, last.guild)) = 1
    /\ Cardinality({c \in Calls : calls[c].pc # "idle"}) = 1

\* C17 witness: clearQueueExceptCurrent has just run on an empty queue whose
\* key exists, without emitting.
C17_WitnessEmpty ==
    /\ last.op = "clearQueueExceptCurrent" /\ ~last.emit
    /\ Has(queues, last.guild) /\ Len(queues[last.guild]) = 0

\* C20.  At the moment an addLinkToQueue invocation calls
\* playbackHandler.startPlayback (line 74, the member lookup having
\* succeeded), the guild's queue is non-empty and the item that invocation
\* pushed is at position 0, whatever ran while the lookup was pending.
C20_StartSeesItsItem ==
    \A c \in Calls :
        (last.op = "addLinkToQueue.member" /\ last.call = c /\ last.ok) =>
            /\ Len(Contents(queues, calls[c].guild)) >= 1
            /\ At(queues[calls[c].guild], 0) = ItemOf(c)

\* ------------------------------------------------------------ shuffle alone
\* A guild's queue of k items, pushed by invocations that have returned and
\* are no longer tracked.
QueueOf(k) == [i \in 1..k |-> QueuedSong(i, "linkA", "userX")]

\* Queues of every length up to MaxShuffle, to which only the shuffle command
\* is applied.
InitShuffle ==
    /\ \E k \in 0..MaxShuffle : queues = MapSet(EmptyMap, "g1", QueueOf(k))
    /\ calls = [c \in Calls |-> IdleCall]
    /\ playback = NoPlayback
    /\ last = Step("new", NoGuild, <<>>, 0, TRUE, Null, FALSE)
    /\ removed = {}
    /\ held = NoHeld
    /\ age = Untracked
    /\ listener = "returns"

NextShuffle == \E mg \in Guilds \cup {NoGuild} : ShuffleCommand(mg)

SpecShuffle == InitShuffle /\ [][NextShuffle]_vars

RECURSIVE Factorial(_)
Factorial(n) == IF n <= 1 THEN 1 ELSE n * Factorial(n - 1)

\* The suffixes shuffleQueue can produce from the guild's queue, one per
\* sequence of draws.
ShuffledSuffixes(g) ==
    {Tail(shuffleQueue(queues, g, js).queues[g]) : js \in Draws(Len(queues[g]) - 1)}

\* C19 (under SpecShuffle).  For a queue with a suffix of m items after
\* position 0, the draws of lines 130-133 map one-to-one onto the orderings of
\* the suffix: there are m! sequences of draws, each yields a permutation of
\* the suffix, no two yield the same one, and so every one of the m!
\* permutations comes from exactly one sequence of draws.
C19_DrawsOntoPermutations ==
    \A g \in Guilds :
        (Has(queues, g) /\ Len(queues[g]) >= 2) =>
            LET m == Len(queues[g]) - 1
            IN  /\ Cardinality(Draws(m)) = Factorial(m)
                /\ Cardinality(ShuffledSuffixes(g)) = Factorial(m)
                /\ \A s \in ShuffledSuffixes(g) : SameBag(s, Tail(queues[g]))

\* C19 witness: a shuffle of the longest queue has just reversed its suffix.
C19_Witness ==
    /\ last.op = "shuffle" /\ last.emit
    /\ Len(queues["g1"]) = MaxShuffle
    /\ \A i \in 1..MaxShuffle : queues["g1"][i].obj = IF i = 1 THEN 1 ELSE MaxShuffle + 2 - i

\* C18.  Whatever the interleaving of addLinkToQueue with getNextQueueItem,
\* removeSong, moveSong, the shuffle, clearQueueExceptCurrent and clearQueue
\* on a guild, the guild's queue holds exactly the items pushed for it and not
\* since taken out by getNextQueueItem, removeSong, clearQueueExceptCurrent or
\* clearQueue, each exactly once.
C18_NoLostUpdate ==
    \A g \in Guilds :
        LET q == Contents(queues, g)
            kept == {c \in CallsOf(g) : calls[c].pushed} \ removed
        IN  /\ Objects(q) = kept
            /\ Len(q) = Cardinality(kept)
            /\ \A i \in 1..Len(q) : q[i] = ItemOf(q[i].obj)

\* C18 witness: the first invocation was suspended on its metadata while the
\* second and third pushed and the second's item was removed; it has now
\* pushed its own item behind the third's.
C18_Witness ==
    /\ last.op = "addLinkToQueue.metadata" /\ last.call = 1 /\ last.emit
    /\ removed = {2}
    /\ Len(Contents(queues, last.guild)) = 2
    /\ queues[last.guild][1].obj = 3
    /\ queues[last.guild][2].obj = 1

\* ------------------------------------------------- a listener that can throw
\* As Init, with a queueUpdate listener registered that can throw.
InitListener ==
    /\ queues = EmptyMap
    /\ calls = [c \in Calls |-> IdleCall]
    /\ playback = NoPlayback
    /\ last = Step("new", NoGuild, <<>>, 0, TRUE, Null, FALSE)
    /\ removed = {}
    /\ held = NoHeld
    /\ age = Untracked
    /\ listener = "mayThrow"

SpecListener == InitListener /\ [][NextOne]_vars

\* C13 (under SpecListener).  A queueUpdate listener that fails does not
\* affect the method that emitted: every step that emits ends without an
\* exception, and an addLinkToQueue that pushed is not rejected and, when its
\* item is the only one in the queue, goes on to start playback.
C13_ListenerFailureIgnored ==
    [][last'.emit =>
        /\ ~last'.threw
        /\ \A c \in Calls :
            Resumed(c, "addLinkToQueue.metadata") =>
                /\ calls'[c].pc # "thrown"
                /\ Len(queues'[calls[c].guild]) <= 1 => calls'[c].task = "lookup"]_vars

\* ------------------------------------------- a caller that keeps the array
\* getQueue called by a caller that keeps the array it returns.
HoldQueue(g) ==
    LET out == getQueue(queues, g)
    IN  /\ queues' = out.queues
        /\ last' = Step("getQueue", g, <<>>, 0, TRUE, out.ret, out.emit)
        /\ held' = [kept |-> TRUE, guild |-> g, live |-> getQueueIsOwnArray(queues, g),
                    items |-> out.ret[1]]
        /\ UNCHANGED <<calls, playback, removed, age, listener>>

\* The caller calls pop() on the array it keeps: when that is the guild's own
\* array, the guild's queue loses its last item, and no queueUpdate is
\* emitted.
CallerPop ==
    /\ held.kept /\ Len(held.items) > 0
    /\ LET shorter == SubSeq(held.items, 1, Len(held.items) - 1)
       IN  /\ held' = [held EXCEPT !.items = shorter]
           /\ queues' = IF held.live THEN MapSet(queues, held.guild, shorter) ELSE queues
    /\ last' = Step("caller.pop", held.guild, <<>>, 0, TRUE, Null, FALSE)
    /\ UNCHANGED <<calls, playback, removed, age, listener>>

\* addLinkToQueue, getNextQueueItem, moveSong, removeSong and clearQueue on
\* the guild "g1", with a caller that keeps and writes to the array it got
\* from getQueue.
NextHeld ==
    \/ \E link \in Links, user \in Users : AddLinkToQueue("g1", link, user)
    \/ \E c \in Calls : ResolveMetadata(c)
    \/ \E c \in Calls : FetchMember(c)
    \/ \E c \in Calls : StartPlayback(c)
    \/ GetNextQueueItem("g1")
    \/ \E a, b \in IndexChoices(queues, "g1") : MoveSong("g1", a, b)
    \/ \E i \in IndexChoices(queues, "g1") : RemoveSong("g1", i)
    \/ ClearQueue("g1")
    \/ HoldQueue("g1")
    \/ CallerPop

SpecHeld == Init /\ [][NextHeld]_vars

\* C11 (under SpecHeld).  The array getQueue returned is a snapshot: a later
\* addLinkToQueue, getNextQueueItem, moveSong or removeSong does not change
\* it, and a caller changing it does not change the guild's queue.
C11_SnapshotNotLive ==
    [][(held.kept /\ last'.op # "getQueue") =>
        IF last'.op = "caller.pop"
        THEN queues' = queues
        ELSE held'.items = held.items]_vars

\* --------------------------------------------- the order of the pushes kept
\* As Init, with the order of the pushes recorded.
InitFifo ==
    /\ queues = EmptyMap
    /\ calls = [c \in Calls |-> IdleCall]
    /\ playback = NoPlayback
    /\ last = Step("new", NoGuild, <<>>, 0, TRUE, Null, FALSE)
    /\ removed = {}
    /\ held = NoHeld
    /\ age = [Untracked EXCEPT !.tracked = TRUE]
    /\ listener = "returns"

SpecFifo == InitFifo /\ [][NextOne]_vars

\* The objects pushed for guild g and not removed, oldest first.
Unremoved(g) == SelectSeq(age.order, LAMBDA x : calls[x].guild = g /\ x \notin removed)

\* The item at position 0 of guild g's queue, if any, is the oldest item
\* pushed for g and not removed.
HeadIsOldest(g) ==
    Len(Contents(queues, g)) > 0 =>
        (Len(Unremoved(g)) > 0 /\ At(queues[g], 0).obj = Unremoved(g)[1])

\* C12 as claimed (under SpecFifo).  After any operation on a guild other
\* than a shuffle or a moveSong with fromIndex or toIndex 0, the item at
\* position 0 is the oldest item pushed and not removed.
C12_HeadIsOldestAfterOtherOps ==
    \A g \in Guilds :
        (/\ last.guild = g
         /\ last.op # "shuffle"
         /\ ~(last.op = "moveSong" /\ (last.args[1] = 0 \/ last.args[2] = 0)))
            => HeadIsOldest(g)

\* C12 (under SpecFifo).  As long as no moveSong has succeeded and no shuffle
\* has run on two or more items since the guild's queue last held at most one
\* item, the item at position 0 is the oldest item pushed and not removed.
C12_HeadIsOldestUnlessReordered ==
    \A g \in Guilds : g \notin age.reordered => HeadIsOldest(g)

\* C12 witness: three items were pushed in an order other than that of the
\* calls, nothing reordered them, and getNextQueueItem has just removed the
\* oldest: the second oldest is at position 0.
C12_Witness ==
    /\ last.op = "getNextQueueItem" /\ last.emit
    /\ age.reordered = {}
    /\ age.order = <<2, 3, 1>>
    /\ removed = {2}
    /\ Len(Contents(queues, "g1")) = 2
    /\ queues["g1"][1].obj = 3
====
